---- MODULE Spec2Model ----
(***************************************************************************)
(* manikyr: watch-state registry and event dispatcher (src/manikyr.go).    *)
(*                                                                         *)
(* The registry is the four Go maps of Manikyr (roots, subdirs, errChans,  *)
(* doneChans).  Every AddRoot creates one fsnotify watcher, one done       *)
(* channel and one watch goroutine; the three share an index here.         *)
(* Caller tasks execute the exported methods statement by statement: a     *)
(* caller's pc names the statement it is executing, and the step that      *)
(* leaves the label is the completion of that statement.                   *)
(***************************************************************************)
EXTENDS Integers, Sequences, FiniteSets, TLC

\* ------------------------------------------------------------------ bounds
MaxInst  == 2   \* watchers that fsnotify.NewWatcher can hand out
MaxQueue == 1   \* notifications waiting on one watcher's Events channel
MaxJobs  == 1   \* createThumb goroutines ever spawned
MaxBad   == 1   \* opens of a just created file that find it incomplete
MaxWalkJobs == 2  \* createThumb goroutines there may be when Init spawns one
MaxDim   == 2   \* largest magnitude of a dimension passed to SetThumbSize

\* -------------------------------------------------------- program constants
GiveUpAfter == 60   \* openImageWhenReady: "if retry*2 > 60"
DefaultThumbSize == 128   \* New: thumbWidth and thumbHeight
DefaultThumbDirPerms == 511   \* New: thumbDirPerms, 0777

\* ------------------------------------------------------------------- paths
\* A path is the sequence of its components; <<>> is the empty string "".
G    == <<"g">>                       \* a root directory
H    == <<"h">>                       \* a second root directory
Tmp  == <<"tmp">>                     \* os.TempDir()
A    == <<"g", "a">>                  \* a visible directory in G
Hid  == <<"g", ".h">>                 \* a hidden directory in G
P    == <<"g", "a", "p">>             \* a regular file in A
TD   == <<"g", "a", "thumbs">>        \* thumbnail directory of A
TP   == <<"g", "a", "thumbs", "p">>   \* thumbnail of P
TA   == <<"tmp", "a">>                \* a regular file of someone else in Tmp
F    == <<"g", "f">>                  \* a regular file in G
GT   == <<"g", "thumbs">>             \* thumbnail directory of G
TF   == <<"g", "thumbs", "f">>        \* thumbnail of F

RootPaths == {G, H}
SubPaths  == {A, Hid}
Fixed     == {G, H, Tmp}              \* directories that are always there
Movable   == {A, Hid, P, TD, TP, TA, F, GT, TF}   \* entries that come and go
UserPaths == {A, Hid, P}              \* entries the user creates and deletes
Sinks     == {"s1", "s2"}             \* channels a caller passes to AddRoot
Callers   == {"c1", "c2"}

IsDirPath(p) == p \in Fixed \cup {A, Hid, TD, GT}

\* path.Dir, path.Base, path.Join on component sequences
Dir(p)  == IF Len(p) = 0 THEN <<".">> ELSE SubSeq(p, 1, Len(p) - 1)
Base(p) == IF Len(p) = 0 THEN "." ELSE p[Len(p)]
Join(d, name) == IF name = "." THEN d ELSE Append(d, name)

\* Go map operations
MapPut(m, k, v) == [x \in DOMAIN m \cup {k} |-> IF x = k THEN v ELSE m[x]]
MapDel(m, k)    == [x \in DOMAIN m \ {k} |-> m[x]]
EmptyMap        == [x \in {} |-> 0]

SeqToSet(s)   == {s[i] : i \in 1..Len(s)}
CutAt(s, i)   == SubSeq(s, 1, i - 1) \o SubSeq(s, i + 1, Len(s))
IndexOf(s, x) == IF \E i \in 1..Len(s) : s[i] = x
                 THEN CHOOSE i \in 1..Len(s) : s[i] = x /\ \A j \in 1..(i - 1) : s[j] # x
                 ELSE 0

VARIABLES
  cfg,        \* which policy functions the engine holds: "default", "custom", "flat"
  thumbWidth,     \* m.thumbWidth
  thumbHeight,    \* m.thumbHeight
  thumbDirPerms,  \* m.thumbDirPerms
  thumbAlgo,      \* m.thumbAlgo
  roots,      \* m.roots:     root path -> watcher index
  subdirs,    \* m.subdirs:   root path -> sequence of subdirectory paths
  errChans,   \* m.errChans:  root path -> sink
  doneChans,  \* m.doneChans: root path -> done channel index
  watchers,   \* fsnotify watchers: closed flag, watched paths, queued events
  disps,      \* watch goroutines, one per AddRoot
  caller,     \* caller tasks
  jobs,       \* createThumb goroutines
  fs,         \* the Movable entries that exist on disk
  crashed     \* the process died (panic or fatal runtime error)

vars == <<cfg, thumbWidth, thumbHeight, thumbDirPerms, thumbAlgo,
          roots, subdirs, errChans, doneChans, watchers, disps, caller, jobs, fs, crashed>>
settings == <<cfg, thumbWidth, thumbHeight, thumbDirPerms, thumbAlgo>>
registry == <<roots, subdirs, errChans, doneChans>>

\* ---------------------------------------------------------------- policies
\* The four function-valued fields.  "default" is what New installs;
\* "custom" is the configuration of the README example (thumbnails in
\* <dir>/thumbs, first-level directories watched, second-level files
\* thumbnailed); "flat" thumbnails the files of the root itself into
\* <root>/thumbs and watches no subdirectory.

\* p[0] of the README example: every path here is absolute, so the first
\* character of a path is the separator whatever its last component is
FirstChar(p) == "/"

\* utils.go NthSubdir: path.Match(path.Join(root, "*" + "/*" x n), dir)
NthSubdir(root, dir, n) ==
  /\ Len(dir) = Len(root) + n + 1
  /\ SubSeq(dir, 1, Len(root)) = root

ThumbDirGetter(p)  == IF cfg = "default" THEN Tmp ELSE Join(Dir(p), "thumbs")
ThumbNameGetter(p) == Base(p)
ShouldWatchSubdir(root, sub) ==
  IF cfg \in {"default", "flat"} THEN FALSE
  ELSE NthSubdir(root, sub, 0) /\ FirstChar(sub) # "." /\ sub # ThumbDirGetter(sub)
ShouldCreateThumb(root, file) ==
  IF cfg = "default" THEN FALSE
  ELSE IF cfg = "flat" THEN NthSubdir(root, file, 0)
  ELSE NthSubdir(root, file, 1)

ThumbPath(p) == Join(ThumbDirGetter(p), ThumbNameGetter(p))

\* -------------------------------------------------------------- filesystem
Exists(p)      == p \in Fixed \cup fs
HasChildren(p) == \E q \in fs : Len(q) > 0 /\ Dir(q) = p

\* os.Stat as the watch loop uses it: the kind of the entry, "gone" for
\* IsNotExist, "err" for any other failure (always possible on an entry
\* that exists, e.g. EACCES)
StatOutcomes(p) ==
  IF Exists(p) THEN {IF IsDirPath(p) THEN "dir" ELSE "file", "err"} ELSE {"gone"}

\* os.Remove deletes a file or an empty directory.  The Fixed directories
\* hold entries outside the model and are never removable.
Removable(p) == p \in fs /\ ~HasChildren(p)

\* ---------------------------------------------------- notification source
ZeroEvent == [Name |-> <<>>, Op |-> "None"]   \* a receive on a closed channel

Interested(ws, k, p) ==
  /\ ~ws[k].closed
  /\ (Dir(p) \in ws[k].paths \/ p \in ws[k].paths)

\* the queues of the watchers concerned have room for one more notification
CanNotify(ws, p) ==
  \A k \in DOMAIN ws : Interested(ws, k, p) => Len(ws[k].events) < MaxQueue

\* inotify reports a change of p to every watcher of p or of p's directory
Notify(ws, p, op) ==
  [k \in DOMAIN ws |->
     IF Interested(ws, k, p)
     THEN [ws[k] EXCEPT !.events = Append(@, [Name |-> p, Op |-> op])]
     ELSE ws[k]]

\* the kernel drops the watch of an entry that is deleted
Unwatch(ws, p) == [k \in DOMAIN ws |-> [ws[k] EXCEPT !.paths = @ \ {p}]]

\* Watcher.Add succeeds only on an open watcher and an existing path, and
\* may fail for lack of resources even then
AddOutcomes(ws, k, p) ==
  IF ~ws[k].closed /\ Exists(p) THEN {TRUE, FALSE} ELSE {FALSE}

\* Watcher.Remove fails when the watcher is closed or holds no watch of p
RemoveOk(ws, k, p) == ~ws[k].closed /\ p \in ws[k].paths

\* Watcher.Close closes the Events and Errors channels; what was queued is lost
Closed(w) == [w EXCEPT !.closed = TRUE, !.paths = {}, !.events = <<>>]

\* --------------------------------------------------------------- records
NoErr  == [err |-> "none", path |-> <<>>]
Idle   == [pc |-> "idle", op |-> "none", root |-> <<>>, sub |-> <<>>, sink |-> "s1",
           err |-> "none", val |-> {}, w |-> 0, idx |-> 0, stack |-> <<>>, args |-> <<>>]

NewWatcher == [closed |-> FALSE, paths |-> {}, events |-> <<>>]
NewDisp(root, sink) ==
  [root |-> root, errChan |-> sink, pc |-> "unborn", w |-> 0,
   pend |-> NoErr, next |-> "select", cancelled |-> FALSE]

\* New, lines 300-303: the settings of a new instance
NewSettings ==
  /\ thumbWidth = DefaultThumbSize
  /\ thumbHeight = DefaultThumbSize
  /\ thumbAlgo = "NearestNeighbor"
  /\ thumbDirPerms = DefaultThumbDirPerms

Init ==
  /\ cfg \in {"default", "custom"}
  /\ NewSettings
  /\ roots = EmptyMap
  /\ subdirs = EmptyMap
  /\ errChans = EmptyMap
  /\ doneChans = EmptyMap
  /\ watchers = <<>>
  /\ disps = <<>>
  /\ caller = [c \in Callers |-> Idle]
  /\ jobs = <<>>
  /\ fs = {TA, A, Hid}
  /\ crashed = FALSE

\* ------------------------------------------------------------ caller tasks
Subs(r) == IF r \in DOMAIN subdirs THEN subdirs[r] ELSE <<>>   \* m.subdirs[r]

\* a method returns e: the task keeps the method's name and its result
Return(c, e) == [caller EXCEPT ![c] = [Idle EXCEPT !.op = caller[c].op, !.err = e]]
Goto(c, l)   == [caller EXCEPT ![c] = [@ EXCEPT !.pc = l]]

\* a caller task invokes one of the exported methods `ops` on a root of `rs`
\* with a sink of `ks`; a subdirectory is passed with the root it lies in
Call(c, ops, rs, ks) ==
  /\ ~crashed
  /\ caller[c].pc = "idle"
  /\ \E op \in ops, r \in rs, s \in SubPaths, k \in ks :
       /\ (op \in {"AddSubdir", "RemoveSubdir"} => Dir(s) = r)
       \* an argument the method does not have is not chosen more than once
       /\ (op \notin {"AddSubdir", "RemoveSubdir"} => s = CHOOSE x \in SubPaths : TRUE)
       /\ (op # "AddRoot" => k = CHOOSE x \in ks : TRUE)
       /\ (op = "Roots" => r = CHOOSE x \in rs : TRUE)
       /\ caller' = [caller EXCEPT ![c] =
                    [Idle EXCEPT !.pc   = IF op = "Roots" THEN "Roots_read" ELSE op \o "_check",
                                 !.op   = op,
                                 !.root = IF op = "Roots" THEN <<>> ELSE r,
                                 !.sub  = IF op \in {"AddSubdir", "RemoveSubdir"} THEN s ELSE <<>>,
                                 !.sink = IF op = "AddRoot" THEN k ELSE "s1"]]
  /\ UNCHANGED <<settings, registry, watchers, disps, jobs, fs, crashed>>

\* Roots(): the keys of m.roots
Roots(c) ==
  /\ ~crashed
  /\ caller[c].pc = "Roots_read"
  /\ caller' = [caller EXCEPT ![c] = [Idle EXCEPT !.op = "Roots", !.err = "nil",
                                                   !.val = DOMAIN roots]]
  /\ UNCHANGED <<settings, registry, watchers, disps, jobs, fs, crashed>>

\* AddRoot as it would be with the sink recorded before the membership test
AddRootCheckRecordingSink(c) ==
  LET r == caller[c].root IN
  /\ ~crashed
  /\ caller[c].pc = "AddRoot_check"
  /\ IF r \in DOMAIN roots
     THEN /\ caller' = Return(c, "ErrRootWatched")
          /\ errChans' = MapPut(errChans, r, caller[c].sink)
          /\ UNCHANGED <<watchers, disps>>
     ELSE \E ok \in (IF Len(watchers) < MaxInst THEN {TRUE, FALSE} ELSE {FALSE}) :
            /\ UNCHANGED errChans
            /\ IF ok
               THEN /\ watchers' = Append(watchers, NewWatcher)
                    /\ disps' = Append(disps, NewDisp(r, caller[c].sink))
                    /\ caller' = [caller EXCEPT ![c] = [@ EXCEPT !.pc = "AddRoot_reg",
                                                                 !.w = Len(watchers) + 1]]
               ELSE /\ caller' = Return(c, "NewWatcherErr")
                    /\ UNCHANGED <<watchers, disps>>
  /\ UNCHANGED <<settings, roots, subdirs, doneChans, jobs, fs, crashed>>

\* AddRoot, lines 77-84: the membership test and fsnotify.NewWatcher()
AddRootCheck(c) ==
  LET r == caller[c].root IN
  /\ ~crashed
  /\ caller[c].pc = "AddRoot_check"
  /\ IF r \in DOMAIN roots
     THEN /\ caller' = Return(c, "ErrRootWatched")
          /\ UNCHANGED <<watchers, disps>>
     ELSE \E ok \in (IF Len(watchers) < MaxInst THEN {TRUE, FALSE} ELSE {FALSE}) :
            IF ok
            THEN /\ watchers' = Append(watchers, NewWatcher)
                 /\ disps' = Append(disps, NewDisp(r, caller[c].sink))
                 /\ caller' = [caller EXCEPT ![c] = [@ EXCEPT !.pc = "AddRoot_reg",
                                                              !.w = Len(watchers) + 1]]
            ELSE /\ caller' = Return(c, "NewWatcherErr")
                 /\ UNCHANGED <<watchers, disps>>
  /\ UNCHANGED <<settings, registry, jobs, fs, crashed>>

\* AddRoot, lines 86-91: the three map writes and "go m.watch(...)"
AddRootReg(c) ==
  LET r == caller[c].root
      w == caller[c].w IN
  /\ ~crashed
  /\ caller[c].pc = "AddRoot_reg"
  /\ roots' = MapPut(roots, r, w)
  /\ errChans' = MapPut(errChans, r, caller[c].sink)
  /\ doneChans' = MapPut(doneChans, r, w)
  /\ disps' = [disps EXCEPT ![w].pc = "start"]
  /\ caller' = Goto(c, "AddRoot_add")
  /\ UNCHANGED <<settings, subdirs, watchers, jobs, fs, crashed>>

\* AddRoot, line 93: return m.roots[root].Add(root)
AddRootAdd(c) ==
  LET r == caller[c].root IN
  /\ ~crashed
  /\ caller[c].pc = "AddRoot_add"
  /\ IF r \notin DOMAIN roots
     THEN \* m.roots[root] is nil: the method call dereferences it and panics
          /\ crashed' = TRUE
          /\ UNCHANGED <<watchers, caller>>
     ELSE \E ok \in AddOutcomes(watchers, roots[r], r) :
            /\ watchers' = IF ok THEN [watchers EXCEPT ![roots[r]].paths = @ \cup {r}]
                           ELSE watchers
            /\ caller' = Return(c, IF ok THEN "nil" ELSE "AddErr")
            /\ UNCHANGED crashed
  /\ UNCHANGED <<settings, registry, disps, jobs, fs>>

\* RemoveRoot, line 102
RemoveRootCheck(c) ==
  /\ ~crashed
  /\ caller[c].pc = "RemoveRoot_check"
  /\ caller' = IF caller[c].root \in DOMAIN roots
               THEN Goto(c, "RemoveRoot_close")
               ELSE Return(c, "ErrRootNotWatched")
  /\ UNCHANGED <<settings, registry, watchers, disps, jobs, fs, crashed>>

\* RemoveRoot, line 105 and the channel operand of line 106
RemoveRootClose(c) ==
  LET r == caller[c].root IN
  /\ ~crashed
  /\ caller[c].pc = "RemoveRoot_close"
  /\ IF r \notin DOMAIN roots
     THEN /\ crashed' = TRUE                    \* Close on a nil watcher
          /\ UNCHANGED <<watchers, caller>>
     ELSE /\ watchers' = [watchers EXCEPT ![roots[r]] = Closed(@)]
          /\ caller' = [caller EXCEPT ![c] = [@ EXCEPT !.pc = "RemoveRoot_send",
                                                       !.w = doneChans[r]]]
          /\ UNCHANGED crashed
  /\ UNCHANGED <<settings, registry, disps, jobs, fs>>

\* RemoveRoot as it would be without "delete(m.subdirs, root)"
RemoveRootDeleteKeepingSubdirs(c) ==
  LET r == caller[c].root IN
  /\ ~crashed
  /\ caller[c].pc = "RemoveRoot_delete"
  /\ roots' = MapDel(roots, r)
  /\ errChans' = MapDel(errChans, r)
  /\ doneChans' = MapDel(doneChans, r)
  /\ caller' = Return(c, "nil")
  /\ UNCHANGED <<settings, subdirs, watchers, disps, jobs, fs, crashed>>

\* RemoveRoot, lines 108-112, once the send of line 106 has been received
RemoveRootDelete(c) ==
  LET r == caller[c].root IN
  /\ ~crashed
  /\ caller[c].pc = "RemoveRoot_delete"
  /\ roots' = MapDel(roots, r)
  /\ errChans' = MapDel(errChans, r)
  /\ doneChans' = MapDel(doneChans, r)
  /\ subdirs' = MapDel(subdirs, r)
  /\ caller' = Return(c, "nil")
  /\ UNCHANGED <<settings, watchers, disps, jobs, fs, crashed>>

\* AddSubdir, lines 170-177: root lookup and the scan of m.subdirs[root]
AddSubdirCheck(c) ==
  LET r == caller[c].root
      s == caller[c].sub IN
  /\ ~crashed
  /\ caller[c].pc = "AddSubdir_check"
  /\ caller' = IF r \notin DOMAIN roots THEN Return(c, "ErrRootNotWatched")
               ELSE IF s \in SeqToSet(Subs(r)) THEN Return(c, "ErrSubdirWatched")
               ELSE Goto(c, "AddSubdir_add")
  /\ UNCHANGED <<settings, registry, watchers, disps, jobs, fs, crashed>>

\* AddSubdir, lines 179-182: err := m.roots[root].Add(subdir)
AddSubdirAdd(c) ==
  LET r == caller[c].root
      s == caller[c].sub IN
  /\ ~crashed
  /\ caller[c].pc = "AddSubdir_add"
  /\ IF r \notin DOMAIN roots
     THEN /\ crashed' = TRUE                    \* Add on a nil watcher
          /\ UNCHANGED <<watchers, caller>>
     ELSE \E ok \in AddOutcomes(watchers, roots[r], s) :
            /\ watchers' = IF ok THEN [watchers EXCEPT ![roots[r]].paths = @ \cup {s}]
                           ELSE watchers
            /\ caller' = IF ok THEN Goto(c, "AddSubdir_append") ELSE Return(c, "AddErr")
            /\ UNCHANGED crashed
  /\ UNCHANGED <<settings, registry, disps, jobs, fs>>

\* AddSubdir as it would be with the slice assigned instead of appended to
AddSubdirAppendOverwriting(c) ==
  LET r == caller[c].root IN
  /\ ~crashed
  /\ caller[c].pc = "AddSubdir_append"
  /\ subdirs' = MapPut(subdirs, r, <<caller[c].sub>>)
  /\ caller' = Return(c, "nil")
  /\ UNCHANGED <<settings, roots, errChans, doneChans, watchers, disps, jobs, fs, crashed>>

\* AddSubdir, lines 183-184: m.subdirs[root] = append(m.subdirs[root], subdir)
AddSubdirAppend(c) ==
  LET r == caller[c].root IN
  /\ ~crashed
  /\ caller[c].pc = "AddSubdir_append"
  /\ subdirs' = MapPut(subdirs, r, Append(Subs(r), caller[c].sub))
  /\ caller' = Return(c, "nil")
  /\ UNCHANGED <<settings, roots, errChans, doneChans, watchers, disps, jobs, fs, crashed>>

\* RemoveSubdir, lines 190-195 and 200: root lookup and the search for subdir
RemoveSubdirCheck(c) ==
  LET r == caller[c].root
      i == IndexOf(Subs(r), caller[c].sub) IN
  /\ ~crashed
  /\ caller[c].pc = "RemoveSubdir_check"
  /\ caller' = IF r \notin DOMAIN roots THEN Return(c, "ErrRootNotWatched")
               ELSE IF i = 0 THEN Return(c, "ErrSubdirNotWatched")
               ELSE [caller EXCEPT ![c] = [@ EXCEPT !.pc = "RemoveSubdir_cut", !.idx = i]]
  /\ UNCHANGED <<settings, registry, watchers, disps, jobs, fs, crashed>>

\* RemoveSubdir, line 196: the element at index i is cut out of the slice
RemoveSubdirCut(c) ==
  LET r == caller[c].root
      i == caller[c].idx IN
  /\ ~crashed
  /\ caller[c].pc = "RemoveSubdir_cut"
  /\ IF i > Len(Subs(r))
     THEN /\ crashed' = TRUE                    \* slice bounds out of range
          /\ UNCHANGED <<subdirs, caller>>
     ELSE /\ subdirs' = MapPut(subdirs, r, CutAt(Subs(r), i))
          /\ caller' = Goto(c, "RemoveSubdir_remove")
          /\ UNCHANGED crashed
  /\ UNCHANGED <<settings, roots, errChans, doneChans, watchers, disps, jobs, fs>>

\* RemoveSubdir, line 197: return m.roots[root].Remove(subdir)
RemoveSubdirRemove(c) ==
  LET r == caller[c].root
      s == caller[c].sub IN
  /\ ~crashed
  /\ caller[c].pc = "RemoveSubdir_remove"
  /\ IF r \notin DOMAIN roots
     THEN /\ crashed' = TRUE                    \* Remove on a nil watcher
          /\ UNCHANGED <<watchers, caller>>
     ELSE /\ watchers' = IF RemoveOk(watchers, roots[r], s)
                         THEN [watchers EXCEPT ![roots[r]].paths = @ \ {s}]
                         ELSE watchers
          /\ caller' = Return(c, IF RemoveOk(watchers, roots[r], s) THEN "nil" ELSE "RemoveErr")
          /\ UNCHANGED crashed
  /\ UNCHANGED <<settings, registry, disps, jobs, fs>>

\* --------------------------------------------------- watch (the dispatcher)
Send(i, e, path, next) ==
  [disps EXCEPT ![i] = [@ EXCEPT !.pc = "send", !.pend = [err |-> e, path |-> path],
                                 !.next = next]]

\* watch, lines 116-122: the goroutine looks its watcher up in m.roots
WatchStart ==
  \E i \in DOMAIN disps :
    LET r == disps[i].root IN
    /\ ~crashed
    /\ disps[i].pc = "start"
    /\ disps' = IF r \in DOMAIN roots
                THEN [disps EXCEPT ![i] = [@ EXCEPT !.pc = "select", !.w = roots[r]]]
                ELSE Send(i, "ErrRootNotWatched", <<>>, "stopped")
    /\ UNCHANGED <<settings, registry, watchers, caller, jobs, fs, crashed>>

\* removeThumb, lines 203-206: os.Remove of the thumbnail path; the caller in
\* watch drops the error.  The result is the pair <<fs, watchers>> after it.
removeThumb(ws, parentFile) ==
  LET t == ThumbPath(parentFile) IN
  IF Removable(t) THEN <<fs \ {t}, Unwatch(Notify(ws, t, "Other"), t)>> ELSE <<fs, ws>>

\* "go m.createThumb(parentFile, errChan)": the goroutine's record.  bad is
\* the number of opens that will still find the file incomplete
\* (image.ErrFormat); retry and slept are openImageWhenReady's retry counter
\* and the seconds it has slept; saved and out are the goroutine's history.
NewJob(file, errChan, bad) ==
  [file |-> file, errChan |-> errChan, pc |-> "open", pend |-> NoErr,
   bad |-> bad, retry |-> 0, slept |-> 0, saved |-> FALSE, out |-> <<>>]

\* watch, lines 125-158: one notification is received and handled
WatchEvent ==
  \E i \in DOMAIN disps :
    LET w    == disps[i].w
        r    == disps[i].root
        shut == watchers[w].closed
        evt  == IF shut THEN ZeroEvent ELSE Head(watchers[w].events)
        ws   == IF shut THEN watchers ELSE [watchers EXCEPT ![w].events = Tail(@)]
        name == evt.Name
        rm   == removeThumb(ws, name)
    IN
    /\ ~crashed
    /\ disps[i].pc = "select"
    /\ shut \/ watchers[w].events # <<>>
    /\ \E st \in StatOutcomes(name), ok \in BOOLEAN :
         IF evt.Op = "Create"
         THEN CASE st = "gone" ->
                     /\ ok
                     /\ disps' = Send(i, "NotExist", name, "select")
                     /\ watchers' = ws
                     /\ UNCHANGED <<jobs, fs, crashed>>
                [] st = "err" ->
                     \* info is nil and info.Mode() panics
                     /\ ok
                     /\ crashed' = TRUE
                     /\ watchers' = ws
                     /\ UNCHANGED <<disps, jobs, fs>>
                [] st = "dir" ->
                     /\ ok \in (IF ShouldWatchSubdir(r, name) THEN AddOutcomes(ws, w, name)
                                ELSE {FALSE})
                     /\ watchers' = IF ok THEN [ws EXCEPT ![w].paths = @ \cup {name}] ELSE ws
                     /\ UNCHANGED <<disps, jobs, fs, crashed>>
                [] st = "file" ->
                     /\ ok
                     /\ IF ShouldCreateThumb(r, name)
                        THEN /\ Len(jobs) < MaxJobs
                             /\ \E b \in 0..MaxBad :
                                  jobs' = Append(jobs, NewJob(name, disps[i].errChan, b))
                        ELSE UNCHANGED jobs
                     /\ watchers' = ws
                     /\ UNCHANGED <<disps, fs, crashed>>
         ELSE CASE st = "gone" ->
                     /\ ok
                     /\ CanNotify(ws, ThumbPath(name))
                     /\ fs' = rm[1]
                     /\ watchers' = rm[2]
                     /\ UNCHANGED <<disps, jobs, crashed>>
                [] st = "err" ->
                     /\ ok
                     /\ disps' = Send(i, "StatErr", name, "select")
                     /\ watchers' = ws
                     /\ UNCHANGED <<jobs, fs, crashed>>
                [] OTHER ->
                     /\ ok
                     /\ watchers' = ws
                     /\ UNCHANGED <<disps, jobs, fs, crashed>>
    /\ UNCHANGED <<settings, registry, caller>>

\* watch, lines 159-160: an error of the notification source is passed on.
\* On a closed watcher the Errors channel is closed and yields nil.
WatchError ==
  \E i \in DOMAIN disps :
    /\ ~crashed
    /\ disps[i].pc = "select"
    /\ disps' = Send(i, IF watchers[disps[i].w].closed THEN "nil" ELSE "SourceErr", <<>>, "select")
    /\ UNCHANGED <<settings, registry, watchers, caller, jobs, fs, crashed>>

\* watch, lines 161-162: the value RemoveRoot sends at line 106 is received;
\* "break" leaves the select statement and the for loop goes on
WatchDone ==
  \E i \in DOMAIN disps :
    /\ ~crashed
    /\ disps[i].pc = "select"
    /\ \E c \in Callers :
         /\ caller[c].pc = "RemoveRoot_send"
         /\ caller[c].w = i
         /\ caller' = Goto(c, "RemoveRoot_delete")
    /\ disps' = [disps EXCEPT ![i].cancelled = TRUE]
    /\ UNCHANGED <<settings, registry, watchers, jobs, fs, crashed>>

\* the owner of the sink receives what a watch goroutine is sending
SinkRecv ==
  \E i \in DOMAIN disps :
    /\ ~crashed
    /\ disps[i].pc = "send"
    /\ disps' = [disps EXCEPT ![i] = [@ EXCEPT !.pc = disps[i].next, !.pend = NoErr,
                                               !.next = "select"]]
    /\ UNCHANGED <<settings, registry, watchers, caller, jobs, fs, crashed>>

\* ------------------------------------------------- createThumb goroutines
JobSend(j, e, path) ==
  [jobs EXCEPT ![j] = [@ EXCEPT !.pc = "send", !.pend = [err |-> e, path |-> path]]]

\* openImageWhenReady as it would be with the "continue" of line 34 missing
GiveUpWithoutRetry(retry) == retry > 0

\* utils.go openImageWhenReady, line 31: "if retry*2 > 60 { break }"
GiveUp(retry) == retry * 2 > GiveUpAfter

\* openImageWhenReady as it would be with the same sleep before every open
BackoffConstant(retry) == 2

\* utils.go openImageWhenReady, line 25-26: the sleep before an open, in
\* seconds (time.Millisecond * 1000 * (retry * 2))
Backoff(retry) == 2 * retry

\* createThumb, lines 209-213, and one turn of openImageWhenReady's loop
\* (utils.go lines 24-37): sleep, imaging.Open, and on image.ErrFormat
\* either another turn or, once retry*2 > 60, the return of that error
JobOpen ==
  \E j \in DOMAIN jobs :
    LET job   == jobs[j]
        woken == [job EXCEPT !.slept = @ + Backoff(job.retry)]
        retry == job.retry + 1 IN
    /\ ~crashed
    /\ job.pc = "open"
    /\ \E res \in (IF ~Exists(job.file) THEN {"err"}
                   ELSE IF job.bad > 0 THEN {"ErrFormat", "err"} ELSE {"ok", "err"}) :
         jobs' = [jobs EXCEPT ![j] =
                    CASE res = "ok"  -> [woken EXCEPT !.pc = "stat"]
                      [] res = "err" -> [woken EXCEPT !.pc = "send",
                                                      !.pend = [err |-> "OpenErr", path |-> job.file]]
                      [] OTHER ->
                           IF GiveUp(retry)
                           THEN [woken EXCEPT !.retry = retry, !.bad = @ - 1, !.pc = "send",
                                              !.pend = [err |-> "ErrFormat", path |-> job.file]]
                           ELSE [woken EXCEPT !.retry = retry, !.bad = @ - 1]]
    /\ UNCHANGED <<settings, registry, watchers, disps, caller, fs, crashed>>

\* createThumb, lines 215-216 and 225-228: os.Stat of the thumbnail directory
JobStat ==
  \E j \in DOMAIN jobs :
    LET d == ThumbDirGetter(jobs[j].file) IN
    /\ ~crashed
    /\ jobs[j].pc = "stat"
    /\ \E st \in StatOutcomes(d) :
         jobs' = IF st = "gone" THEN [jobs EXCEPT ![j].pc = "mkdir"]
                 ELSE IF st = "err" THEN JobSend(j, "StatErr", d)
                 ELSE [jobs EXCEPT ![j].pc = "save"]
    /\ UNCHANGED <<settings, registry, watchers, disps, caller, fs, crashed>>

\* createThumb, lines 218-224: os.Mkdir of the thumbnail directory; it fails
\* with os.ErrExist when something is at that path by now
JobMkdir ==
  \E j \in DOMAIN jobs :
    LET d == ThumbDirGetter(jobs[j].file) IN
    /\ ~crashed
    /\ jobs[j].pc = "mkdir"
    /\ \E ok \in (IF ~Exists(d) /\ Exists(Dir(d)) /\ d \in Movable THEN {TRUE, FALSE}
                  ELSE {FALSE}) :
         IF ok
         THEN /\ CanNotify(watchers, d)
              /\ fs' = fs \cup {d}
              /\ watchers' = Notify(watchers, d, "Create")
              /\ jobs' = [jobs EXCEPT ![j].pc = "save"]
         ELSE /\ jobs' = JobSend(j, IF Exists(d) THEN "ErrExist" ELSE "MkdirErr", d)
              /\ UNCHANGED <<fs, watchers>>
    /\ UNCHANGED <<settings, registry, disps, caller, crashed>>

\* createThumb, lines 230-235: the thumbnail is written
JobSave ==
  \E j \in DOMAIN jobs :
    LET d == ThumbDirGetter(jobs[j].file)
        t == ThumbPath(jobs[j].file) IN
    /\ ~crashed
    /\ jobs[j].pc = "save"
    /\ \E ok \in (IF Exists(d) /\ t \in Movable THEN {TRUE, FALSE} ELSE {FALSE}) :
         IF ok
         THEN /\ CanNotify(watchers, t)
              /\ fs' = fs \cup {t}
              /\ watchers' = Notify(watchers, t, IF t \in fs THEN "Other" ELSE "Create")
              /\ jobs' = [jobs EXCEPT ![j] = [@ EXCEPT !.pc = "done", !.saved = TRUE]]
         ELSE /\ jobs' = JobSend(j, "SaveErr", t)
              /\ UNCHANGED <<fs, watchers>>
    /\ UNCHANGED <<settings, registry, disps, caller, crashed>>

\* the owner of the sink receives what a createThumb goroutine is sending;
\* `out` keeps what the sink has received from the goroutine
JobSinkRecv ==
  \E j \in DOMAIN jobs :
    /\ ~crashed
    /\ jobs[j].pc = "send"
    /\ jobs' = [jobs EXCEPT ![j] = [@ EXCEPT !.pc = "done", !.pend = NoErr,
                                             !.out = Append(@, jobs[j].pend.err)]]
    /\ UNCHANGED <<settings, registry, watchers, disps, caller, fs, crashed>>

\* ------------------------------------------------------- Init and autoAdd
\* ioutil.ReadDir returns the entries of a directory sorted by name
NameOrder == <<".h", "a", "f", "p", "thumbs">>
ReadDir(d) == SelectSeq(NameOrder, LAMBDA n : Append(d, n) \in fs)

\* Init, lines 282-286, up to the ioutil.ReadDir of autoAdd(m, root, root)
\* (utils.go lines 66-69).  stack holds one frame per autoAdd call that has
\* not returned: its currentDir and the entries its loop has still to visit.
InitCheck(c) ==
  LET r == caller[c].root IN
  /\ ~crashed
  /\ caller[c].pc = "Init_check"
  /\ \E ok \in BOOLEAN :
       caller' = IF r \notin DOMAIN roots THEN Return(c, "ErrRootNotWatched")
                 ELSE IF ~ok THEN Return(c, "ReadDirErr")
                 ELSE [caller EXCEPT ![c] =
                         [@ EXCEPT !.pc = "Init_walk",
                                   !.stack = <<[dir |-> r, rest |-> ReadDir(r)]>>]]
  /\ UNCHANGED <<settings, registry, watchers, disps, jobs, fs, crashed>>

\* autoAdd as it would be with "err == nil" for the test of line 83
ThumbFound(res) == res \in {"file", "dir"}

\* autoAdd, utils.go line 83: os.IsNotExist(err) of the os.Stat of thumbLocation
ThumbMissing(res) == res = "gone"

\* autoAdd, utils.go lines 70-90: one turn of the loop of the innermost
\* autoAdd call, or its "return nil" when no entry is left.  The AddSubdir
\* call of line 73 and the ReadDir of the recursive call are part of the turn.
\* The files the walk finds were written before it started: their first open
\* finds them complete.
autoAdd(c) ==
  LET r        == caller[c].root
      st       == caller[c].stack
      top      == st[Len(st)]
      below    == SubSeq(st, 1, Len(st) - 1)
      name     == Head(top.rest)
      rest     == Append(below, [top EXCEPT !.rest = Tail(@)])
      isDir    == IsDirPath(Append(top.dir, name))
      filePath == Join(r, name)
      thumbLocation == Join(ThumbDirGetter(filePath), ThumbNameGetter(filePath))
  IN
  /\ ~crashed
  /\ caller[c].pc = "Init_walk"
  /\ IF top.rest = <<>>
     THEN /\ caller' = IF below = <<>> THEN Return(c, "nil")
                       ELSE [caller EXCEPT ![c] = [@ EXCEPT !.stack = below]]
          /\ UNCHANGED <<subdirs, watchers, jobs>>
     ELSE IF isDir /\ ShouldWatchSubdir(top.dir, filePath)
     THEN IF r \notin DOMAIN roots
          THEN /\ caller' = Return(c, "ErrRootNotWatched")
               /\ UNCHANGED <<subdirs, watchers, jobs>>
          ELSE IF filePath \in SeqToSet(Subs(r))
          THEN /\ caller' = Return(c, "ErrSubdirWatched")
               /\ UNCHANGED <<subdirs, watchers, jobs>>
          ELSE \E ok \in AddOutcomes(watchers, roots[r], filePath), rd \in BOOLEAN :
                 IF ~ok
                 THEN /\ rd
                      /\ caller' = Return(c, "AddErr")
                      /\ UNCHANGED <<subdirs, watchers, jobs>>
                 ELSE /\ watchers' = [watchers EXCEPT ![roots[r]].paths = @ \cup {filePath}]
                      /\ subdirs' = MapPut(subdirs, r, Append(Subs(r), filePath))
                      /\ caller' = IF rd
                                   THEN [caller EXCEPT ![c] = [@ EXCEPT !.stack =
                                          Append(rest, [dir |-> filePath, rest |-> ReadDir(filePath)])]]
                                   ELSE Return(c, "ReadDirErr")
                      /\ UNCHANGED jobs
     ELSE IF ~isDir /\ ShouldCreateThumb(r, filePath)
     THEN \E res \in StatOutcomes(thumbLocation) :
            /\ IF ThumbMissing(res)
               THEN /\ Len(jobs) < MaxWalkJobs
                    /\ jobs' = Append(jobs, NewJob(filePath,
                                   IF r \in DOMAIN errChans THEN errChans[r] ELSE "nil", 0))
                    /\ caller' = [caller EXCEPT ![c] = [@ EXCEPT !.stack = rest]]
               ELSE /\ caller' = IF res = "err" THEN Return(c, "StatErr")
                                 ELSE [caller EXCEPT ![c] = [@ EXCEPT !.stack = rest]]
                    /\ UNCHANGED jobs
            /\ UNCHANGED <<subdirs, watchers>>
     ELSE /\ caller' = [caller EXCEPT ![c] = [@ EXCEPT !.stack = rest]]
          /\ UNCHANGED <<subdirs, watchers, jobs>>
  /\ UNCHANGED <<settings, roots, errChans, doneChans, disps, fs, crashed>>

\* ------------------------------------------------------------- settings
\* a caller task invokes SetThumbSize(w, h)
CallSetThumbSize(c) ==
  /\ ~crashed
  /\ caller[c].pc = "idle"
  /\ \E w \in (0 - MaxDim)..MaxDim, h \in (0 - MaxDim)..MaxDim :
       caller' = [caller EXCEPT ![c] = [Idle EXCEPT !.pc = "SetThumbSize_set",
                                                    !.op = "SetThumbSize", !.args = <<w, h>>]]
  /\ UNCHANGED <<settings, registry, watchers, disps, jobs, fs, crashed>>

\* SetThumbSize as it would be with "< 0" for "< 1"
ClampNegative(x) == IF x < 0 THEN 1 ELSE x

\* SetThumbSize, lines 246-248 and 251-253: if x < 1 { x = 1 }
Clamp(x) == IF x < 1 THEN 1 ELSE x

\* SetThumbSize, lines 245-255
SetThumbSize(c) ==
  /\ ~crashed
  /\ caller[c].pc = "SetThumbSize_set"
  /\ thumbWidth' = Clamp(caller[c].args[1])
  /\ thumbHeight' = Clamp(caller[c].args[2])
  /\ caller' = [caller EXCEPT ![c] = [@ EXCEPT !.pc = "idle", !.err = "nil"]]
  /\ UNCHANGED <<cfg, thumbDirPerms, thumbAlgo, registry, watchers, disps, jobs, fs, crashed>>

\* SetThumbDirFileMode, lines 263-265
SetThumbDirFileMode ==
  /\ ~crashed
  /\ \E fm \in {0, DefaultThumbDirPerms} : thumbDirPerms' = fm
  /\ UNCHANGED <<cfg, thumbWidth, thumbHeight, thumbAlgo, registry, watchers, disps, caller,
                 jobs, fs, crashed>>

\* SetThumbAlgorithm, lines 274-276
SetThumbAlgorithm ==
  /\ ~crashed
  /\ \E filter \in {"NearestNeighbor", "Lanczos"} : thumbAlgo' = filter
  /\ UNCHANGED <<cfg, thumbWidth, thumbHeight, thumbDirPerms, registry, watchers, disps, caller,
                 jobs, fs, crashed>>

\* --------------------------------------------------------- the environment
\* the user creates an entry
FsCreate(p) ==
  /\ ~crashed
  /\ p \notin fs
  /\ Exists(Dir(p))
  /\ CanNotify(watchers, p)
  /\ fs' = fs \cup {p}
  /\ watchers' = Notify(watchers, p, "Create")
  /\ UNCHANGED <<settings, registry, disps, caller, jobs, crashed>>

\* the user deletes a file or an empty directory
FsDelete(p) ==
  /\ ~crashed
  /\ Removable(p)
  /\ CanNotify(watchers, p)
  /\ fs' = fs \ {p}
  /\ watchers' = Unwatch(Notify(watchers, p, "Other"), p)
  /\ UNCHANGED <<settings, registry, disps, caller, jobs, crashed>>

\* ------------------------------------------------- unsynchronised map use
AllMaps == {"roots", "subdirs", "errChans", "doneChans"}

\* the maps the statement a caller is executing writes
CallerWrites(c) ==
  CASE caller[c].pc = "AddRoot_reg"       -> {"roots", "errChans", "doneChans"}
    [] caller[c].pc = "RemoveRoot_delete" -> AllMaps
    [] caller[c].pc = "AddSubdir_append"  -> {"subdirs"}
    [] caller[c].pc = "RemoveSubdir_cut"  -> {"subdirs"}
    [] OTHER -> {}

\* the maps the statement a caller is executing reads
CallerReads(c) ==
  CASE caller[c].pc \in {"AddRoot_check", "AddRoot_add", "RemoveRoot_check", "AddSubdir_add",
                         "RemoveSubdir_remove", "Roots_read"} -> {"roots"}
    [] caller[c].pc = "RemoveRoot_close" -> {"roots", "doneChans"}
    [] caller[c].pc \in {"AddSubdir_check", "RemoveSubdir_check"} -> {"roots", "subdirs"}
    [] caller[c].pc = "Init_check" -> {"roots"}
    [] caller[c].pc = "Init_walk" -> {"roots", "subdirs", "errChans"}
    [] OTHER -> {}

\* a watch goroutine reads m.roots once, at line 116
DispReads(i) == IF disps[i].pc = "start" THEN {"roots"} ELSE {}

\* some task is inside a map write while another task accesses the same map
Race ==
  \/ \E c \in Callers : \E d \in Callers \ {c} :
       CallerWrites(c) \cap (CallerReads(d) \cup CallerWrites(d)) # {}
  \/ \E c \in Callers, i \in DOMAIN disps : CallerWrites(c) \cap DispReads(i) # {}

\* the Go runtime may detect the concurrent map access and kill the process
MapFault ==
  /\ ~crashed
  /\ Race
  /\ crashed' = TRUE
  /\ UNCHANGED <<settings, registry, watchers, disps, caller, jobs, fs>>

\* ------------------------------------------------------ the specifications
AllOps == {"AddRoot", "RemoveRoot", "AddSubdir", "RemoveSubdir", "Roots"}

AddRoot(c)      == AddRootCheck(c) \/ AddRootReg(c) \/ AddRootAdd(c)
RemoveRoot(c)   == RemoveRootCheck(c) \/ RemoveRootClose(c) \/ RemoveRootDelete(c)
AddSubdir(c)    == AddSubdirCheck(c) \/ AddSubdirAdd(c) \/ AddSubdirAppend(c)
RemoveSubdir(c) == RemoveSubdirCheck(c) \/ RemoveSubdirCut(c) \/ RemoveSubdirRemove(c)

watch == WatchStart \/ WatchEvent \/ WatchError \/ WatchDone \/ SinkRecv

createThumb == JobOpen \/ JobStat \/ JobMkdir \/ JobSave \/ JobSinkRecv

\* Spec: one caller task uses every method on both roots and both sinks,
\* over a directory tree that does not change.
Next ==
  \/ Call("c1", AllOps, RootPaths, Sinks)
  \/ Roots("c1")
  \/ AddRoot("c1")
  \/ RemoveRoot("c1")
  \/ AddSubdir("c1")
  \/ RemoveSubdir("c1")
  \/ watch
  \/ MapFault

Spec == Init /\ [][Next]_vars

\* SpecFs: the user creates and deletes entries under G while one caller
\* task registers G and adds and removes its subdirectories.
InitFs ==
  /\ cfg \in {"default", "custom"}
  /\ NewSettings
  /\ roots = EmptyMap
  /\ subdirs = EmptyMap
  /\ errChans = EmptyMap
  /\ doneChans = EmptyMap
  /\ watchers = <<>>
  /\ disps = <<>>
  /\ caller = [c \in Callers |-> Idle]
  /\ jobs = <<>>
  /\ fs \in {{TA}, {TA, A}}
  /\ crashed = FALSE

\* the methods the caller task of SpecFs uses
FsOps == {"AddRoot", "AddSubdir", "RemoveSubdir"}

NextFs ==
  \/ Call("c1", FsOps, {G}, {"s1"})
  \/ AddRoot("c1")
  \/ AddSubdir("c1")
  \/ RemoveSubdir("c1")
  \/ WatchStart \/ WatchEvent \/ WatchError \/ SinkRecv
  \/ createThumb
  \/ \E p \in UserPaths : FsCreate(p)
  \/ \E p \in UserPaths : FsDelete(p)

SpecFs == InitFs /\ [][NextFs]_vars

\* SpecOpen: one createThumb goroutine for P runs on its own; the file stays
\* incomplete for any number of opens up to two more than openImageWhenReady
\* is willing to make.
InitOpen ==
  /\ cfg \in {"default", "custom"}
  /\ NewSettings
  /\ roots = EmptyMap
  /\ subdirs = EmptyMap
  /\ errChans = EmptyMap
  /\ doneChans = EmptyMap
  /\ watchers = <<>>
  /\ disps = <<>>
  /\ caller = [c \in Callers |-> Idle]
  /\ \E b \in 0..(GiveUpAfter \div 2 + 2) : jobs = <<NewJob(P, "s1", b)>>
  /\ fs \in {{TA, A, P}, {TA, A, P, TD}}
  /\ crashed = FALSE

NextOpen == JobOpen \/ JobStat \/ JobMkdir \/ JobSave \/ JobSinkRecv

SpecOpen == InitOpen /\ [][NextOpen]_vars

\* SpecWalk: one caller task registers G and calls Init on it, any number
\* of times, over a tree the user leaves alone.
InitWalk ==
  /\ cfg \in {"default", "custom", "flat"}
  /\ NewSettings
  /\ roots = EmptyMap
  /\ subdirs = EmptyMap
  /\ errChans = EmptyMap
  /\ doneChans = EmptyMap
  /\ watchers = <<>>
  /\ disps = <<>>
  /\ caller = [c \in Callers |-> Idle]
  /\ jobs = <<>>
  /\ fs \in {{TA, A, Hid, P, F}, {TA, A, P, TD, TP, F, GT}, {TA, F}, {TA, F, GT, TF}}
  /\ crashed = FALSE

\* the methods the caller task of SpecWalk uses
WalkOps == {"AddRoot", "Init"}

NextWalk ==
  \/ Call("c1", WalkOps, {G}, {"s1"})
  \/ AddRoot("c1")
  \/ InitCheck("c1")
  \/ autoAdd("c1")
  \/ WatchStart \/ WatchEvent \/ WatchError \/ SinkRecv
  \/ createThumb

SpecWalk == InitWalk /\ [][NextWalk]_vars

\* the methods the caller task of SpecSize uses beside the setters
SizeOps == {"AddRoot", "RemoveRoot", "AddSubdir"}

\* SpecSize: one caller task changes the settings of an engine on which it
\* also registers and removes the root G.
NextSize ==
  \/ CallSetThumbSize("c1")
  \/ SetThumbSize("c1")
  \/ SetThumbDirFileMode
  \/ SetThumbAlgorithm
  \/ Call("c1", SizeOps, {G}, {"s1"})
  \/ AddRoot("c1")
  \/ RemoveRoot("c1")
  \/ AddSubdir("c1")
  \/ watch

SpecSize == Init /\ [][NextSize]_vars

\* the methods the second caller task of SpecTwo uses
TwoOps == {"AddSubdir", "RemoveSubdir"}

\* SpecTwo: two caller tasks use one engine at the same time: the first
\* registers G, and both add and remove its subdirectories.
NextTwo ==
  \/ Call("c1", FsOps, {G}, {"s1"})
  \/ Call("c2", TwoOps, {G}, {"s1"})
  \/ AddRoot("c1")
  \/ \E c \in Callers : AddSubdir(c)
  \/ \E c \in Callers : RemoveSubdir(c)
  \/ WatchStart \/ WatchError \/ SinkRecv
  \/ MapFault

SpecTwo == Init /\ [][NextTwo]_vars

\* the methods the caller task of SpecRetire uses
RetireOps == {"AddRoot", "Init", "RemoveRoot"}

\* SpecRetire: one caller task registers G, calls Init on it and removes it
\* again while the createThumb goroutines of the walk are still running.
NextRetire ==
  \/ Call("c1", RetireOps, {G}, {"s1"})
  \/ AddRoot("c1")
  \/ InitCheck("c1")
  \/ autoAdd("c1")
  \/ RemoveRoot("c1")
  \/ watch
  \/ createThumb

SpecRetire == InitWalk /\ [][NextRetire]_vars

\* the methods the caller task of SpecHandover uses
HandoverOps == {"AddRoot", "RemoveRoot"}

\* the step of the action Step that changes watch goroutine i
Of(i, Step) == Step /\ i \in DOMAIN disps /\ disps'[i] # disps[i]

\* SpecHandover: one caller task registers and removes the single root G.
\* The caller and every watch goroutine keep running, a send to a sink is
\* received in the end, and a select statement that is entered again and
\* again with the done channel ready takes that case in the end (Go chooses
\* among the ready cases at random).
NextHandover ==
  \/ Call("c1", HandoverOps, {G}, Sinks)
  \/ AddRoot("c1")
  \/ RemoveRoot("c1")
  \/ watch

SpecHandover ==
  /\ Init /\ [][NextHandover]_vars
  /\ WF_vars(RemoveRoot("c1"))
  /\ \A i \in 1..MaxInst : WF_vars(Of(i, WatchStart))
  /\ \A i \in 1..MaxInst : WF_vars(Of(i, SinkRecv))
  /\ \A i \in 1..MaxInst : SF_vars(Of(i, WatchDone))

\* ================================================================= claims
\* the step in which caller task c completes the statement at label l
Leaves(c, l) == caller[c].pc = l /\ caller'[c].pc # l

\* C1: once a watch goroutine has consumed its cancellation signal, the only
\* step it may still take is the one that stops it: it reports nothing more
\* and handles nothing more.
C1_StopsOnCancel ==
  [][\A i \in DOMAIN disps :
       (disps[i].cancelled /\ disps'[i] # disps[i]) => disps'[i].pc = "stopped"]_vars

\* C2: AddRoot(p, sink) on a registered root p returns ErrRootWatched and
\* changes neither the registry (roots, subdirectory sets, handle, sink and
\* done channel of p) nor the watchers nor the running watch goroutines.
C2_AddRootRejectsRegistered ==
  [][\A c \in Callers :
       (Leaves(c, "AddRoot_check") /\ caller[c].root \in DOMAIN roots)
         => /\ caller'[c].pc = "idle"
            /\ caller'[c].err = "ErrRootWatched"
            /\ UNCHANGED <<registry, watchers, disps, jobs, fs>>]_vars

\* C2 witness: AddRoot has just been rejected for a root that stays registered
C2_Witness ==
  /\ caller["c1"].pc = "idle"
  /\ caller["c1"].op = "AddRoot"
  /\ caller["c1"].err = "ErrRootWatched"
  /\ roots # EmptyMap

\* C3: when the subscription of p fails inside AddRoot, AddRoot returns the
\* failure, p is not a registered root and the watch goroutine of this call
\* has not been started.
C3_FailedAddRootRegistersNothing ==
  [][\A c \in Callers :
       (Leaves(c, "AddRoot_add") /\ caller'[c].err = "AddErr")
         => /\ caller[c].root \notin DOMAIN roots'
            /\ disps'[caller[c].w].pc = "unborn"]_vars

\* C4: RemoveRoot(p) on an unregistered p returns ErrRootNotWatched and
\* changes nothing; on a registered p it returns nil with p's watcher closed,
\* p out of Roots() and p's subdirectory set gone; AddRoot(p) is then not
\* rejected as already watched and p starts with an empty subdirectory set.
C4_RemoveRoot ==
  [][\A c \in Callers :
       LET r == caller[c].root IN
       /\ (Leaves(c, "RemoveRoot_check") /\ r \notin DOMAIN roots)
            => /\ caller'[c].pc = "idle"
               /\ caller'[c].err = "ErrRootNotWatched"
               /\ UNCHANGED <<registry, watchers, disps, jobs, fs>>
       /\ Leaves(c, "RemoveRoot_delete")
            => /\ watchers[roots[r]].closed
               /\ caller'[c].pc = "idle"
               /\ caller'[c].err = "nil"
               /\ r \notin DOMAIN roots'
               /\ r \notin DOMAIN subdirs'
       /\ (Leaves(c, "AddRoot_check") /\ r \notin DOMAIN roots)
            => caller'[c].err # "ErrRootWatched"
       /\ Leaves(c, "AddRoot_reg")
            => r \in DOMAIN roots' /\ r \notin DOMAIN subdirs']_vars

\* C4 witness: a root was removed and the same path has been added again
C4_Witness ==
  /\ caller["c1"].pc = "idle"
  /\ caller["c1"].op = "AddRoot"
  /\ caller["c1"].err = "nil"
  /\ Len(disps) = 2
  /\ disps[1].root = disps[2].root
  /\ disps[1].cancelled
  /\ watchers[1].closed
  /\ disps[2].root \in DOMAIN roots
  /\ disps[2].root \notin DOMAIN subdirs

\* the step in which watch goroutine i handles the notification at the head
\* of its watcher's queue
Handles(i) ==
  /\ disps[i].pc = "select"
  /\ ~watchers[disps[i].w].closed
  /\ ~watchers'[disps[i].w].closed
  /\ watchers[disps[i].w].events # <<>>
  /\ watchers'[disps[i].w].events = Tail(watchers[disps[i].w].events)
  /\ ~crashed'

\* C5: when the watch goroutine of root R handles a notification for a member
\* of R's subdirectory set that no longer exists on disk, the directory is
\* removed from R's set.
C5_UnwatchOnDelete ==
  [][\A i \in DOMAIN disps :
       LET r == disps[i].root
           n == Head(watchers[disps[i].w].events).Name IN
       (Handles(i) /\ r \in DOMAIN roots /\ ~Exists(n) /\ n \in SeqToSet(Subs(r)))
         => (r \in DOMAIN subdirs' => n \notin SeqToSet(subdirs'[r]))]_vars

\* C6: when the watch goroutine of root R handles a "created" notification
\* for an existing directory d that ShouldWatchSubdir accepts, d becomes a
\* member of R's subdirectory set.
C6_CreatedDirBecomesMember ==
  [][\A i \in DOMAIN disps :
       LET r == disps[i].root
           e == Head(watchers[disps[i].w].events) IN
       (Handles(i) /\ r \in DOMAIN roots /\ e.Op = "Create" /\ Exists(e.Name)
          /\ IsDirPath(e.Name) /\ ShouldWatchSubdir(r, e.Name))
         => (r \in DOMAIN subdirs' /\ e.Name \in SeqToSet(subdirs'[r]))]_vars

\* C7: an engine whose policy functions are the defaults of New never
\* creates or deletes an entry: whatever the user did not touch stays.
C7_DefaultsDoNoDamage ==
  [][cfg = "default" => fs' \ UserPaths = fs \ UserPaths]_vars

\* C8: AddSubdir(r, s) returns ErrRootNotWatched for an unregistered r and
\* ErrSubdirWatched for a member s; in both cases, and when the subscription
\* of s fails, the registry and the watchers are unchanged.  Otherwise s is
\* subscribed on r's watcher and becomes a member of r's set, whose other
\* members stay, as do the sets of the other roots.
C8_AddSubdir ==
  [][\A c \in Callers :
       LET r == caller[c].root
           s == caller[c].sub IN
       /\ (Leaves(c, "AddSubdir_check") /\ r \notin DOMAIN roots)
            => /\ caller'[c].pc = "idle"
               /\ caller'[c].err = "ErrRootNotWatched"
               /\ UNCHANGED <<registry, watchers>>
       /\ (Leaves(c, "AddSubdir_check") /\ r \in DOMAIN roots /\ s \in SeqToSet(Subs(r)))
            => /\ caller'[c].pc = "idle"
               /\ caller'[c].err = "ErrSubdirWatched"
               /\ UNCHANGED <<registry, watchers>>
       /\ (Leaves(c, "AddSubdir_add") /\ caller'[c].pc = "idle")
            => /\ caller'[c].err = "AddErr"
               /\ UNCHANGED <<registry, watchers>>
       /\ (Leaves(c, "AddSubdir_add") /\ caller'[c].pc # "idle")
            => /\ s \in watchers'[roots[r]].paths
               /\ UNCHANGED registry
       /\ Leaves(c, "AddSubdir_append")
            => /\ caller'[c].err = "nil"
               /\ s \notin SeqToSet(Subs(r))
               /\ SeqToSet(subdirs'[r]) = SeqToSet(Subs(r)) \cup {s}
               /\ \A q \in DOMAIN subdirs \ {r} : subdirs'[q] = subdirs[q]
               /\ UNCHANGED <<roots, errChans, doneChans>>]_vars

\* C8 witness: AddSubdir has added a second member to the set of G
C8_Witness ==
  /\ caller["c1"].pc = "idle"
  /\ caller["c1"].op = "AddSubdir"
  /\ caller["c1"].err = "nil"
  /\ SeqToSet(Subs(G)) = {A, Hid}
  /\ {A, Hid} \subseteq watchers[roots[G]].paths

\* C9: RemoveSubdir(r, s) returns ErrSubdirNotWatched and leaves r's set as
\* it is when s is not a member; when s is a member, s is afterwards not a
\* member and the other members stay; and membership of s is given up only
\* if the unsubscription took place.
C9_RemoveSubdir ==
  [][\A c \in Callers :
       LET r == caller[c].root
           s == caller[c].sub IN
       /\ (Leaves(c, "RemoveSubdir_check") /\ r \in DOMAIN roots /\ s \notin SeqToSet(Subs(r)))
            => /\ caller'[c].err = "ErrSubdirNotWatched"
               /\ UNCHANGED <<registry, watchers>>
       /\ Leaves(c, "RemoveSubdir_cut")
            => SeqToSet(subdirs'[r]) = SeqToSet(Subs(r)) \ {s}
       /\ (Leaves(c, "RemoveSubdir_remove") /\ caller'[c].err # "nil")
            => s \in SeqToSet(subdirs'[r])]_vars

\* C10: no task reads or writes a map of the registry while another task is
\* in the middle of writing that map.
C10_RaceFree == ~Race

\* nothing is in flight: no notification is queued, no watch goroutine is in
\* the middle of a send, every createThumb goroutine has returned and no
\* method call is in progress
Quiescent ==
  /\ \A k \in DOMAIN watchers : watchers[k].events = <<>>
  /\ \A i \in DOMAIN disps : disps[i].pc \in {"unborn", "select", "stopped"}
  /\ \A j \in DOMAIN jobs : jobs[j].pc = "done"
  /\ \A c \in Callers : caller[c].pc = "idle"
  /\ ~crashed

\* C11: after a file accepted by ShouldCreateThumb was created and deleted
\* and everything the two notifications started has run to its end, no
\* thumbnail of the file is on disk.
C11_CreateThenDeleteLeavesNoThumb ==
  (Quiescent /\ Len(jobs) > 0 /\ jobs[1].file = P /\ P \notin fs) => TP \notin fs

\* C12: a createThumb goroutine that has returned has reported exactly one
\* thing to its root's sink: a success report if the thumbnail was saved,
\* and otherwise the error of the step that failed.
C12_JobReportsOnce ==
  \A j \in DOMAIN jobs :
    jobs[j].pc = "done"
      => /\ Len(jobs[j].out) = 1
         /\ (jobs[j].saved <=> jobs[j].out[1] = "ThumbCreate")

\* C13: when a watch goroutine handles a non-create notification for a path
\* that no longer exists, it reports nothing if there is no thumbnail of
\* the path, and reports the removal if it deleted the thumbnail.
C13_RemovalReported ==
  [][\A i \in DOMAIN disps :
       LET e == Head(watchers[disps[i].w].events)
           t == ThumbPath(e.Name) IN
       (Handles(i) /\ e.Op # "Create" /\ ~Exists(e.Name))
         => /\ t \notin fs => (disps'[i] = disps[i] /\ fs' = fs)
            /\ (t \in fs /\ t \notin fs')
                 => (disps'[i].pc = "send" /\ disps'[i].pend.err = "ThumbRemove")]_vars

\* the errors of createThumb that are not the image format error
OtherErrs == {"OpenErr", "StatErr", "MkdirErr", "ErrExist", "SaveErr"}

\* C14: a createThumb goroutine whose file was incomplete for the first k
\* opens, for any k, and that met no other failure has, when it returns,
\* reported the creation of the thumbnail.
C14_ReadyAfterRetries ==
  \A j \in DOMAIN jobs :
    (jobs[j].pc = "done" /\ SeqToSet(jobs[j].out) \cap OtherErrs = {})
      => jobs[j].out = <<"ThumbCreate">>

\* C15: openImageWhenReady makes a bounded number of opens; a goroutine
\* reports at most one thing; and the format error is reported only after
\* the goroutine has slept more than 60 seconds in all.
C15_GivesUpAfterAMinute ==
  \A j \in DOMAIN jobs :
    /\ jobs[j].retry * 2 <= GiveUpAfter + 2
    /\ Len(jobs[j].out) <= 1
    /\ (jobs[j].pend.err = "ErrFormat" \/ "ErrFormat" \in SeqToSet(jobs[j].out))
         => jobs[j].slept > 60

\* C15 witness: every open found the file incomplete and the goroutine has
\* reported the format error and returned
C15_Witness ==
  /\ Len(jobs) = 1
  /\ jobs[1].pc = "done"
  /\ jobs[1].out = <<"ErrFormat">>
  /\ jobs[1].bad > 0

\* the step in which caller task c visits the next entry in its walk
Visits(c) ==
  /\ caller[c].pc = "Init_walk"
  /\ caller[c].stack[Len(caller[c].stack)].rest # <<>>
  /\ caller'[c] # caller[c]

\* C16: Init classifies the entry it visits by its real path p, as watch
\* classifies a created p: an accepted directory is a member of the root's
\* set afterwards unless Init returns an error, a directory that is not
\* accepted is not made a member, an accepted regular file without a
\* thumbnail gets a createThumb goroutine for p, and no other goroutine is
\* spawned.
C16_InitClassifiesLikeWatch ==
  [][\A c \in Callers :
       LET r   == caller[c].root
           top == caller[c].stack[Len(caller[c].stack)]
           p   == Append(top.dir, Head(top.rest))
           spawned == Len(jobs') = Len(jobs) + 1 IN
       (Visits(c) /\ r \in DOMAIN roots)
         => /\ (IsDirPath(p) /\ ShouldWatchSubdir(r, p) /\ caller'[c].pc # "idle")
                 => p \in SeqToSet(subdirs'[r])
            /\ (IsDirPath(p) /\ ~ShouldWatchSubdir(r, p) /\ p \notin SeqToSet(Subs(r)))
                 => (r \in DOMAIN subdirs' => p \notin SeqToSet(subdirs'[r]))
            /\ (~IsDirPath(p) /\ ShouldCreateThumb(r, p) /\ ~Exists(ThumbPath(p)))
                 => (spawned /\ jobs'[Len(jobs')].file = p)
            /\ spawned
                 => (~IsDirPath(p) /\ ShouldCreateThumb(r, p) /\ jobs'[Len(jobs')].file = p)]_vars

\* C17: Init spawns a createThumb goroutine for a file only if the file is
\* accepted by ShouldCreateThumb and nothing exists at its thumbnail path;
\* so an Init that follows the saving of a thumbnail spawns none for it.
C17_InitSkipsExistingThumbs ==
  [][\A c \in Callers :
       (Visits(c) /\ Len(jobs') > Len(jobs))
         => LET f == jobs'[Len(jobs')].file IN
            /\ ~Exists(ThumbPath(f))
            /\ ShouldCreateThumb(caller[c].root, f)
            /\ \A j \in DOMAIN jobs : jobs[j].file = f => ~jobs[j].saved]_vars

\* C17 witness: the thumbnail directory was made by the goroutine of an
\* earlier Init; the Init now walking G read it, has visited F whose
\* thumbnail that goroutine saved, and has spawned nothing
C17_Witness ==
  /\ cfg = "flat"
  /\ A \notin fs
  /\ caller["c1"].pc = "Init_walk"
  /\ caller["c1"].stack = <<[dir |-> G, rest |-> <<"thumbs">>]>>
  /\ Len(jobs) = 1
  /\ jobs[1].file = F
  /\ jobs[1].saved
  /\ TF \in fs

\* C18: the thumbnail width and height are at least 1 in every state, 128
\* at the start, and SetThumbSize(w, h) sets them to max(w, 1) and max(h, 1)
\* and changes no other setting and nothing of the registry.
C18_SizeAtLeastOne ==
  /\ thumbWidth = 128 /\ thumbHeight = 128
  /\ [](thumbWidth >= 1 /\ thumbHeight >= 1)
  /\ [][\A c \in Callers :
          Leaves(c, "SetThumbSize_set")
            => LET w == caller[c].args[1]
                   h == caller[c].args[2] IN
               /\ thumbWidth' = (IF w > 1 THEN w ELSE 1)
               /\ thumbHeight' = (IF h > 1 THEN h ELSE 1)
               /\ UNCHANGED <<cfg, thumbDirPerms, thumbAlgo, registry, watchers, disps,
                              jobs, fs>>]_vars

\* C18 witness: SetThumbSize was called with a zero width and a negative
\* height on an engine that has a registered root
C18_Witness ==
  /\ caller["c1"].pc = "idle"
  /\ caller["c1"].op = "SetThumbSize"
  /\ caller["c1"].args[1] = 0
  /\ caller["c1"].args[2] < 0
  /\ thumbWidth = 1
  /\ thumbHeight = 1
  /\ roots # EmptyMap

\* the watch goroutines of root r that have been started and have not returned
Running(r) ==
  {i \in DOMAIN disps : disps[i].root = r /\ disps[i].pc \notin {"unborn", "stopped"}}

\* C19: whenever no method call is in progress, exactly one watch goroutine
\* is running for each registered root and none for any other path.
C19_OneDispatcherPerRoot ==
  (\A c \in Callers : caller[c].pc = "idle")
    => \A r \in RootPaths :
         Cardinality(Running(r)) = (IF r \in DOMAIN roots THEN 1 ELSE 0)

\* C20: a watch goroutine whose root stays registered goes on running and
\* the process does not die, whatever notification it handles; and a
\* "created" notification for a path that is gone is answered with an
\* error report for that path.
C20_DispatcherSurvives ==
  [][\A i \in DOMAIN disps :
       (disps[i].pc \in {"select", "send"} /\ disps[i].root \in DOMAIN roots /\ ~crashed)
         => /\ ~crashed'
            /\ disps'[i].pc \in {"select", "send"}
            /\ (Handles(i) /\ Head(watchers[disps[i].w].events).Op = "Create"
                  /\ ~Exists(Head(watchers[disps[i].w].events).Name))
                 => /\ disps'[i].pc = "send"
                    /\ disps'[i].pend.path = Head(watchers[disps[i].w].events).Name]_vars

\* C21: no createThumb goroutine reports that its thumbnail directory
\* already exists, whatever other goroutines with the same thumbnail
\* directory do between its os.Stat and its os.Mkdir.
C21_ExistingThumbDirIsNoError ==
  \A j \in DOMAIN jobs :
    /\ jobs[j].pend.err # "ErrExist"
    /\ "ErrExist" \notin SeqToSet(jobs[j].out)

\* no element occurs twice in the sequence s
NoDup(s) == \A i, j \in 1..Len(s) : i # j => s[i] # s[j]

\* C22: in every reachable state no root's slice of watched subdirectories
\* holds the same path twice.
C22_NoDuplicateMembers == \A r \in DOMAIN subdirs : NoDup(subdirs[r])

\* C23: when Init visits a directory that ShouldWatchSubdir accepts and that
\* is a member of the root's set already, the walk goes on with the next
\* entry instead of returning, and the registry is left as it was.
C23_InitIsIdempotent ==
  [][\A c \in Callers :
       LET r   == caller[c].root
           top == caller[c].stack[Len(caller[c].stack)]
           p   == Append(top.dir, Head(top.rest)) IN
       (Visits(c) /\ r \in DOMAIN roots /\ IsDirPath(p) /\ ShouldWatchSubdir(r, p)
          /\ p \in SeqToSet(Subs(r)))
         => /\ caller'[c].pc = "Init_walk"
            /\ subdirs' = subdirs]_vars

\* the last call of caller task c was RemoveRoot(G), it returned nil and G
\* has not been registered again
Retired(c) ==
  /\ caller[c].pc = "idle"
  /\ caller[c].op = "RemoveRoot"
  /\ caller[c].err = "nil"
  /\ G \notin DOMAIN roots

\* C24: once RemoveRoot(G) has returned, nothing that a createThumb
\* goroutine spawned from G has to report is delivered to G's sink.
C24_LateReportsDropped ==
  [][\A j \in DOMAIN jobs :
       Retired("c1") => Len(jobs'[j].out) = Len(jobs[j].out)]_vars

\* the step in which createThumb goroutine j makes one open attempt
Opens(j) == jobs[j].pc = "open" /\ jobs'[j] # jobs[j]

\* what every reading of C25 shares: the open made after N format errors is
\* preceded by a sleep of 2N seconds (none before the first), and an open
\* that succeeds or fails with another error ends the phase at once
C25_Waits ==
  [][\A j \in DOMAIN jobs :
       Opens(j)
         => /\ jobs'[j].slept = jobs[j].slept + 2 * jobs[j].retry
            /\ jobs'[j].retry \in {jobs[j].retry, jobs[j].retry + 1}
            /\ jobs'[j].retry = jobs[j].retry
                 => /\ jobs'[j].pc \in {"stat", "send"}
                    /\ jobs'[j].pend.err # "ErrFormat"]_vars

\* C25 as stated: the waits are as in C25_Waits, and no further open is
\* attempted once the goroutine has slept more than 60 seconds in all.
C25_AbandonsOnAccumulatedBackoff ==
  /\ C25_Waits
  /\ [](\A j \in DOMAIN jobs : jobs[j].slept > GiveUpAfter => jobs[j].pc # "open")

\* C25 amended: the waits are as in C25_Waits, and after a format error the
\* goroutine retries exactly if the wait before the next open is at most 60
\* seconds; otherwise it returns the format error.  No wait is longer than
\* 60 seconds.
C25_AbandonsOnNextWait ==
  /\ C25_Waits
  /\ [](\A j \in DOMAIN jobs : jobs[j].pc = "open" => 2 * jobs[j].retry <= GiveUpAfter)
  /\ [][\A j \in DOMAIN jobs :
         (Opens(j) /\ jobs'[j].retry = jobs[j].retry + 1)
           => IF 2 * jobs'[j].retry <= GiveUpAfter
              THEN jobs'[j].pc = "open"
              ELSE jobs'[j].pc = "send" /\ jobs'[j].pend.err = "ErrFormat"]_vars

\* C25 witness: the goroutine has met a format error at every open, has
\* slept 2 + 4 + ... + 60 seconds and is returning the format error
C25_Witness ==
  /\ Len(jobs) = 1
  /\ jobs[1].pc = "send"
  /\ jobs[1].pend.err = "ErrFormat"
  /\ jobs[1].retry = GiveUpAfter \div 2 + 1
  /\ jobs[1].slept = (GiveUpAfter \div 2) * (GiveUpAfter \div 2 + 1)

\* caller task c is inside a RemoveRoot call that found its root registered
Removing(c) ==
  caller[c].pc \in {"RemoveRoot_close", "RemoveRoot_send", "RemoveRoot_delete"}

\* C26: a RemoveRoot call that found its root registered is never left
\* without a way to return: while it is in progress the process is not
\* brought down, and while it offers the cancellation signal the watch
\* goroutine that has to take it has not returned.
C26_RemoveRootCanReturn ==
  \A c \in Callers :
    /\ Removing(c) => ~crashed
    /\ caller[c].pc = "RemoveRoot_send" => disps[caller[c].w].pc # "stopped"

\* where G is the only root, a RemoveRoot call that found it registered
\* returns, in every behaviour of SpecHandover
HandoverCompletes == Removing("c1") ~> (caller["c1"].pc = "idle")

====
